---- MODULE Spec2Model ----
(***************************************************************************)
(* Token cache of statelydb/src/auth.py (init_server_auth, _dedupe,        *)
(* _schedule, fetch_stately_access_token, backoff) on an asyncio event     *)
(* loop.  `ready` is the loop's FIFO of handles scheduled by the program   *)
(* itself (call_soon: task starts, wake-ups of the waiters of a finished   *)
(* task, zero-length sleeps); every coroutine step between two suspension  *)
(* points is one action.  Steps of application tasks, answers of the auth  *)
(* service and timers that fall due are scheduled from outside and may     *)
(* run ahead of any handle except one scheduled by the same step as its    *)
(* predecessor (`glued`).  Time is relative to the present instant: Now    *)
(* is always 0 and Tick moves every stored timestamp towards the past.     *)
(* Durations are milliseconds.                                             *)
(***************************************************************************)
EXTENDS Integers, Sequences, FiniteSets, TLC

\* ---- bounds of the model ------------------------------------------------
MaxCallers == 2        \* application tasks that call get_token()
MaxTasks == 2          \* refresh tasks alive at once
MaxTimers == 2         \* _schedule tasks alive at once
MaxTokens == 2         \* tokens the auth service issues in one run
MaxFailures == 1       \* failed GetAuthToken calls in one run (Spec)
MaxCancels == 1        \* cancellations of application tasks in one run
MaxExpiresIn == 10     \* largest expires_in_s the auth service reports
TickMs == 500          \* granularity of the clock
MaxOps == 2            \* requests the block of a transaction issues
MaxItems == 2          \* items of one put_batch, generated IDs of one put_ack
MaxPages == 3          \* pages one cursor reads from its stream
MaxReads == 2          \* list pages one transaction reads
MaxAttempt == 9        \* largest attempt backoff is called with on its own

\* ---- program constants --------------------------------------------------
RETRY_ATTEMPTS == 10
BaseRetryBackoffMs == 10
NON_RETRYABLE_ERRORS ==
    {"UNAUTHENTICATED", "PERMISSION_DENIED", "NOT_FOUND", "UNIMPLEMENTED",
     "INVALID_ARGUMENT"}
\* the retryable codes exercised by the tests
RetryableCodes == {"UNAVAILABLE", "UNKNOWN"}
Codes == NON_RETRYABLE_ERRORS \cup RetryableCodes

Callers == 1..MaxCallers
Tasks == 1..MaxTasks
Timers == 1..MaxTimers
ExpiresInValues == {0, MaxExpiresIn}
\* random() * 0.05 + 0.9, in thousandths: the ends of [0.9, 0.95)
RefreshJitter == {900, 949}
\* random(), in thousandths: the ends of [0, 1)
BackoffJitter == {0, 999}

Now == 0
None == 0
Past == 0 - TickMs

VARIABLES
    token_state,   \* TokenState, or NoState: the nonlocal of init_server_auth
    cached,        \* the nonlocal of _dedupe: None or the refresh task
    tasks,         \* the refresh tasks (asyncio.create_task(_refresh_token_impl()))
    sched,         \* the _schedule tasks
    callers,       \* the application tasks calling get_token()
    ready,         \* the event loop's ready queue (FIFO of handles)
    returned,      \* what the last step handed back to the application
    issued,        \* tokens issued by the auth service so far
    fail_left,     \* failures the auth service may still produce
    cancel_left    \* cancellations the application may still ask for

\* one transaction session (statelydb/src/transaction.py) on its own stream
VARIABLES
    pc,            \* where the session is: new, active, awaiting, exit, ...
    message_id,    \* Transaction._message_id
    stream,        \* the bidirectional stream: what was sent and how it stands
    awaiting,      \* the response _expect_response is waiting for
    inbound,       \* the messages recv_message() has returned, in order
    result,        \* Transaction.result, and how often it was assigned
    exc,           \* the exception that left the caller's block
    raised,        \* the exception that left the `async with` statement
    ops_left,      \* requests the caller's block may still issue
    put            \* the last put_batch call: its items and what it returned

\* one list or sync cursor (statelydb/src/sync.py, Transaction.begin_list)
VARIABLES
    cursor,        \* the response handler: a suspended or finished generator
    emitted,       \* what the cursor has yielded to its caller, in order
    pages,         \* the pages a sync cursor has read from its stream, in order
    cstream        \* the stream of a sync cursor and the calls of its exit hook

\* one call of backoff(attempt, base_retry_backoff_secs) on its own
VARIABLES
    bo             \* the arguments of the call, random()'s value, and the result

cvars == <<cursor, emitted, pages, cstream>>

tvars == <<pc, message_id, stream, awaiting, inbound, result, exc, raised, ops_left,
           put, cvars, bo>>

vars == <<token_state, cached, tasks, sched, callers, ready, returned, issued,
          fail_left, cancel_left, tvars>>

\* ---- values ---------------------------------------------------------------
NoState == [token |-> 0, expires_at |-> 0]
NoOut == [kind |-> "none", token |-> 0, code |-> "", origin |-> ""]
OkOut(tok) == [NoOut EXCEPT !.kind = "ok", !.token = tok]
ErrOut(code, origin) == [NoOut EXCEPT !.kind = "err", !.code = code, !.origin = origin]
ExcOut == [NoOut EXCEPT !.kind = "exc"]
Cancelled == [NoOut EXCEPT !.kind = "cancelled"]

W(kind, id) == [kind |-> kind, id |-> id]
NoWaiter == W("none", 0)
\* handles of the ready queue: a step of waiter `who` or of refresh task `task`
HW(kind, w, glued) == [kind |-> kind, who |-> w, task |-> 0, glued |-> glued]
HT(kind, t) == [kind |-> kind, who |-> NoWaiter, task |-> t, glued |-> FALSE]
NoReturn == [who |-> NoWaiter, task |-> 0, out |-> NoOut]
Return(w, t, out) == [who |-> w, task |-> t, out |-> out]

FreeTask ==
    [status |-> "free", i |-> 0, attempts |-> 0, failures |-> 0, waits |-> 0,
     wake_at |-> 0, pending |-> FALSE, must_cancel |-> FALSE, waiters |-> <<>>,
     delivered |-> 0, out |-> NoOut]
FreeTimer ==
    [status |-> "free", delay |-> 0, due |-> 0, pending |-> FALSE, on |-> 0,
     expires_in |-> 0]
IdleCaller == [status |-> "idle", on |-> 0, must_cancel |-> FALSE]

Max(a, b) == IF a > b THEN a ELSE b
SeqWithout(s, x) == SelectSeq(s, LAMBDA y : y # x)
\* the done-callbacks of a task schedule its waiters in the order in which
\* they awaited it; `first` tells whether the step scheduled nothing before
WakeHandles(ws, first) ==
    [k \in 1..Len(ws) |-> HW("wake", ws[k], ~(first /\ k = 1))]

\* ---- pure helpers of auth.py ---------------------------------------------
\* the comparison of valid_access_token() turned round
valid_access_token_turned ==
    IF token_state # NoState /\ token_state.expires_at < Now
    THEN token_state.token ELSE None

\* valid_access_token(): the stored token while it has not expired, else None
valid_access_token ==
    IF token_state # NoState /\ Now < token_state.expires_at
    THEN token_state.token ELSE None

\* `x or y` in get_token: x is used when it is truthy (a non-empty string;
\* tokens are the non-empty strings 1, 2, ...)
Truthy(v) == v # None

\* int(timedelta.total_seconds()) for a non-negative duration in ms
IntSecs(ms) == ms \div 1000

\* new_expires_in_secs * jitter, jitter in thousandths, as milliseconds
RefreshDelay(secs, jitter) == secs * jitter

\* the whole exponential step, random() left out
backoff_full(attempt, base, jitter) == (2 ^ attempt) * base

\* the exponent counted from one
backoff_one_based(attempt, base, jitter) ==
    ((2 ^ (attempt + 1)) * jitter * base) \div 1000

\* backoff(attempt, base): 2**attempt * random() * base, jitter in thousandths
backoff(attempt, base, jitter) == ((2 ^ attempt) * jitter * base) \div 1000

\* the except clause without its test of the error code
IsLastAttempt(code, i) == i = RETRY_ATTEMPTS - 1

\* the range of the loop off by one
IsFinalFailureEarly(code, i) == code \in NON_RETRYABLE_ERRORS \/ i = RETRY_ATTEMPTS - 2

\* `e.code in NON_RETRYABLE_ERRORS or i == RETRY_ATTEMPTS - 1`
IsFinalFailure(code, i) == code \in NON_RETRYABLE_ERRORS \/ i = RETRY_ATTEMPTS - 1

\* the except clause raising the error of lines 228-232 instead
RaisedInternal(e) == [e EXCEPT !.code = "INTERNAL", !.origin = "local"]

\* what `raise` re-raises in the except clause: the error just caught
Reraised(e) == e

\* _dedupe._run without its finally clause
cached_without_finally == cached

\* `finally: cached = None` of _dedupe._run
cached_after_finally == None

FreeTasks == {t \in Tasks : tasks[t].status = "free"}
NewTask == CHOOSE t \in FreeTasks : \A u \in FreeTasks : t <= u
FreeTimers == {s \in Timers : sched[s].status = "free"}
NewTimer == CHOOSE s \in FreeTimers : \A u \in FreeTimers : s <= u
Running == {c \in Callers : callers[c].status = "running"}

\* a step scheduled from outside the program may run now
MayRun == Running = {} /\ (IF ready = <<>> THEN TRUE ELSE ~Head(ready).glued)
\* the loop runs the handle at the head of its queue
HeadIs(kind) == Running = {} /\ ready # <<>> /\ Head(ready).kind = kind

\* ---- initial states -------------------------------------------------------
\* ---- the values of a transaction session ---------------------------------------
\* what the caller's block may ask for, and the requests __aenter__ and
\* __aexit__ send themselves
BlockCommands == {"get_items", "put_items", "delete_items", "begin_list", "continue_list"}
Commands == BlockCommands \cup {"begin", "commit", "abort"}

\* the `result` oneof of a TransactionResponse; "unset" stands for a response
\* with no field set (WhichOneof returns None)
Fields == {"get_results", "put_ack", "list_results", "finished", "unset"}

\* the field a command's response must carry; "list_page" stands for the read
\* of one page by the cursor of a begin_list or continue_list
expect_field(cmd) ==
    CASE cmd = "get_items" -> "get_results"
      [] cmd = "put_items" -> "put_ack"
      [] cmd \in {"commit", "abort"} -> "finished"
      [] cmd = "list_page" -> "list_results"

\* the wire items a `finished` response may list as put_results
PutResults == {<<>>, <<1>>, <<2, 1>>}

NoExc == [kind |-> "none", during |-> "none"]
Exc(kind, during) == [kind |-> kind, during |-> during]

Request_end_always(id, cmd) == [message_id |-> id, command |-> cmd, end |-> TRUE]

Request(id, cmd) ==
    [message_id |-> id, command |-> cmd, end |-> cmd \in {"commit", "abort"}]

Response(id, field, committed, put_results) ==
    [message_id |-> id, result |-> field, committed |-> committed,
     put_results |-> put_results, body |-> <<>>]

\* a GeneratedID of a put_ack: its `value` oneof holds uint, bytes or nothing
GenUint(n) == [value |-> "uint", data |-> n]
GenBytes(b) == [value |-> "bytes", data |-> b]
GenUnset == [value |-> "unset", data |-> 0]

\* the generated IDs a server hands out: the integer 0, a 16-byte value, none
GeneratedIDs == {GenUint(0), GenBytes(16), GenUnset}

\* all sequences over S of length 0 .. n
SeqsUpTo(S, n) == UNION {[1 .. k -> S] : k \in 0 .. n}

\* a put_ack response that carries the generated IDs ids
PutAck(id, ids) == [Response(id, "put_ack", FALSE, <<>>) EXCEPT !.body = ids]

\* a TransactionListResponse: its `response` oneof is result, finished, or unset
ListResultPage(items) == [response |-> "result", items |-> items, token |-> ""]
ListFinishedPage(t) == [response |-> "finished", items |-> <<>>, token |-> t]
ListUnsetPage == [response |-> "unset", items |-> <<>>, token |-> ""]

\* the list pages a server may send inside a transaction
ListPages ==
    {ListResultPage(items) : items \in {<<>>, <<2, 1>>}}
    \cup {ListFinishedPage("T1"), ListUnsetPage}

\* a list_results response that carries page p
ListPage(id, p) == [Response(id, "list_results", FALSE, <<>>) EXCEPT !.body = p]

\* recv_message() returns None when the server has ended the stream
StreamEnd == Response(0, "None", FALSE, <<>>)

\* what the server may answer to the request with ID id; a response with the
\* ID of the request before it stands for every response that is not for id
ServerResponses(id) ==
    {Response(i, f, FALSE, <<>>) : i \in {id, id - 1}, f \in Fields \ {"finished"}}
    \cup {ListPage(id, p) : p \in ListPages}
    \cup {Response(i, "finished", c, p) :
            i \in {id, id - 1}, c \in BOOLEAN, p \in PutResults}
    \cup {PutAck(id, ids) : ids \in SeqsUpTo(GeneratedIDs, MaxItems)}

\* the IDs one session can use: begin, the block's requests, commit or abort
MessageIDs == 2 .. (MaxOps + 3)

\* every message recv_message() can return
Responses == UNION {ServerResponses(id) : id \in MessageIDs} \cup {StreamEnd}

NoExpect == [message_id |-> 0, field |-> "none", command |-> "none"]
Expect(id, cmd) == [message_id |-> id, field |-> expect_field(cmd), command |-> cmd]

NoResult == [none |-> TRUE]
TransactionResult(puts, committed) == [puts |-> puts, committed |-> committed]

\* the type mapper turns a wire item into an item object
unmarshal(i) == [type |-> "StatelyItem", data |-> i]

NewStream == [state |-> "new", sent |-> <<>>]

\* no put_batch has been called: the number of items of the last call, the
\* list it returned and the number of calls that returned
NoPut == [items |-> 0, out |-> <<>>, returns |-> 0]

\* no list or sync call has been made
NoCursor ==
    [kind |-> "none", state |-> "absent", message_id |-> 0, buffer |-> <<>>,
     token |-> "None", error |-> NoExc]

NoStream == [state |-> "absent", exits |-> <<>>]

NoCursors ==
    /\ cursor = NoCursor
    /\ emitted = <<>>
    /\ pages = <<>>
    /\ cstream = NoStream

\* no transaction has been started
NoTransaction ==
    /\ pc = "absent"
    /\ message_id = 0
    /\ stream = NewStream
    /\ awaiting = NoExpect
    /\ inbound = <<>>
    /\ result = [value |-> NoResult, assigned |-> 0]
    /\ exc = NoExc
    /\ raised = NoExc
    /\ ops_left = 0
    /\ put = NoPut

\* backoff has not been called on its own
NoCall == [attempt |-> 0, base |-> 0, jitter |-> 0, called |-> FALSE, d |-> 0]

InitCache ==
    /\ bo = NoCall
    /\ token_state = NoState
    /\ cached = None
    /\ tasks = [t \in Tasks |-> FreeTask]
    /\ sched = [s \in Timers |-> FreeTimer]
    /\ ready = <<>>
    /\ returned = NoReturn

Init ==
    /\ InitCache
    /\ callers = [c \in Callers |-> IdleCaller]
    /\ fail_left = MaxFailures
    /\ issued = 0
    /\ cancel_left = MaxCancels
    /\ NoTransaction
    /\ NoCursors

InitFetch ==
    /\ InitCache
    /\ callers = [c \in Callers |->
            IF c = 1 THEN IdleCaller ELSE [IdleCaller EXCEPT !.status = "absent"]]
    /\ fail_left = RETRY_ATTEMPTS + MaxFailures
    /\ issued = MaxTokens - 1
    /\ cancel_left = 0
    /\ NoTransaction
    /\ NoCursors

\* ---- _dedupe._run up to its await ------------------------------------------
\* `cached = cached or task()` then `await cached` for waiter w, with q the
\* ready queue left by the running step.  An already settled task is not
\* awaited: its result is returned at once and the finally clause runs.
RunSuspends == cached = None \/ tasks[cached].status # "done"

dedupe_run(w, q) ==
    IF cached = None
    THEN /\ FreeTasks # {}
         /\ cached' = NewTask
         /\ tasks' = [tasks EXCEPT ![NewTask] =
                [FreeTask EXCEPT !.status = "created", !.pending = TRUE,
                                 !.waiters = <<w>>]]
         /\ ready' = Append(q, HT("start", NewTask))
    ELSE IF tasks[cached].status = "done"
    THEN /\ cached' = cached_after_finally
         /\ tasks' = tasks
         /\ ready' = q
    ELSE /\ cached' = cached
         /\ tasks' = [tasks EXCEPT ![cached].waiters = Append(@, w)]
         /\ ready' = q

Awaited == IF cached = None THEN NewTask ELSE cached

\* ---- the application -------------------------------------------------------
\* get_token(): `return valid_access_token() or await _refresh_token()`,
\* called by an application task that starts a step or that goes on after an
\* earlier call returned to it
get_token(c) ==
    /\ IF callers[c].status = "idle" THEN MayRun
       ELSE callers[c].status = "running"
    /\ IF Truthy(valid_access_token)
       THEN /\ returned' = Return(W("caller", c), 0, OkOut(valid_access_token))
            /\ callers' = [callers EXCEPT ![c].status = "running"]
            /\ UNCHANGED <<cached, tasks, ready>>
       ELSE /\ dedupe_run(W("caller", c), ready)
            /\ IF RunSuspends
               THEN /\ callers' = [callers EXCEPT ![c].status = "waiting",
                                                  ![c].on = Awaited]
                    /\ returned' = NoReturn
               ELSE /\ callers' = [callers EXCEPT ![c].status = "running"]
                    /\ returned' = Return(W("caller", c), cached, tasks[cached].out)
    /\ UNCHANGED <<token_state, sched, issued, fail_left, cancel_left>>
    /\ UNCHANGED tvars

\* the application task's step ends without another call
EndStep(c) ==
    /\ callers[c].status = "running"
    /\ callers' = [callers EXCEPT ![c] = IdleCaller]
    /\ returned' = NoReturn
    /\ UNCHANGED <<token_state, cached, tasks, sched, ready, issued, fail_left, cancel_left>>
    /\ UNCHANGED tvars

\* Task.cancel() on a caller suspended in `await cached`: the cancellation is
\* passed on to the awaited refresh task unless that task is already done
Cancel(c) ==
    /\ MayRun
    /\ cancel_left > 0
    /\ cancel_left' = cancel_left - 1
    /\ callers[c].status = "waiting"
    /\ ~callers[c].must_cancel
    /\ LET t == callers[c].on
       IN IF tasks[t].status = "done"
          THEN /\ callers' = [callers EXCEPT ![c].must_cancel = TRUE]
               /\ UNCHANGED <<tasks, ready>>
          ELSE /\ ~tasks[t].must_cancel
               /\ tasks' = [tasks EXCEPT ![t].must_cancel = TRUE, ![t].pending = TRUE]
               /\ ready' = IF tasks[t].pending THEN ready
                           ELSE Append(ready, HT("throw", t))
               /\ UNCHANGED callers
    /\ returned' = NoReturn
    /\ UNCHANGED <<token_state, cached, sched, issued, fail_left>>
    /\ UNCHANGED tvars

\* ---- the refresh task: _refresh_token_impl and fetch_stately_access_token --
Settled(t, out) ==
    [tasks EXCEPT ![t].status = "done", ![t].out = out, ![t].pending = FALSE]

\* Task.cancel() reached the refresh task: CancelledError is thrown into it at
\* its next step, whatever it was waiting for
RunCancelled(t) ==
    /\ Running = {} /\ ready # <<>> /\ Head(ready).task = t
    /\ tasks[t].must_cancel
    /\ tasks' = Settled(t, Cancelled)
    /\ ready' = Tail(ready) \o WakeHandles(tasks[t].waiters, TRUE)
    /\ returned' = NoReturn
    /\ UNCHANGED <<token_state, cached, sched, callers, issued, fail_left, cancel_left>>
    /\ UNCHANGED tvars

\* first step: `await token_fetcher()`, the first GetAuthToken call (i = 0)
RunStart(t) ==
    /\ HeadIs("start") /\ Head(ready).task = t
    /\ ~tasks[t].must_cancel
    /\ tasks' = [tasks EXCEPT ![t].status = "fetching", ![t].i = 0,
                              ![t].attempts = 1, ![t].pending = FALSE]
    /\ ready' = Tail(ready)
    /\ returned' = NoReturn
    /\ UNCHANGED <<token_state, cached, sched, callers, issued, fail_left, cancel_left>>
    /\ UNCHANGED tvars

\* the task waits for the answer to its GetAuthToken call
AwaitingService(t) ==
    /\ MayRun
    /\ tasks[t].status = "fetching"
    /\ ~tasks[t].must_cancel

\* lines 113-145: the call returned a token with expires_in_s = e
new_expires_at(e) == Now + 1000 * e
\* the comparison of the expiries letting a tie through
InstallsOnTie(e) == token_state = NoState \/ new_expires_at(e) >= token_state.expires_at

Installs(e) == token_state = NoState \/ new_expires_at(e) > token_state.expires_at
\* the fetched token installed whatever its expiry
new_token_state_always(tok, e) == [token |-> tok, expires_at |-> new_expires_at(e)]

new_token_state(tok, e) ==
    IF Installs(e) THEN [token |-> tok, expires_at |-> new_expires_at(e)]
    ELSE token_state
\* the refresh scheduled from the reported lifetime in both branches
new_expires_in_secs_reported(e) == e

new_expires_in_secs(e) ==
    IF Installs(e) THEN e ELSE IntSecs(token_state.expires_at - Now)

RespOk(t, e) ==
    /\ AwaitingService(t)
    /\ issued < MaxTokens
    /\ FreeTimers # {}
    /\ issued' = issued + 1
    /\ token_state' = new_token_state(issued + 1, e)
    /\ \E jitter \in RefreshJitter :
          sched' = [sched EXCEPT ![NewTimer] =
              [FreeTimer EXCEPT
                  !.status = "created", !.pending = TRUE,
                  !.delay = RefreshDelay(new_expires_in_secs(e), jitter),
                  !.expires_in = e]]
    /\ tasks' = Settled(t, OkOut(new_token_state(issued + 1, e).token))
    /\ ready' = Append(ready, HW("sched_start", W("sched", NewTimer), FALSE))
                  \o WakeHandles(tasks[t].waiters, FALSE)
    /\ returned' = NoReturn
    /\ UNCHANGED <<cached, callers, fail_left, cancel_left>>
    /\ UNCHANGED tvars

token_state_dropped == NoState

\* an exception leaves _refresh_token_impl at `await token_fetcher()`, before
\* the lines that assign token_state and create the _schedule task
token_state_on_failure == token_state

\* lines 221-225: the call raised a StatelyError with this code
RespErr(t, code) ==
    /\ AwaitingService(t)
    /\ fail_left > 0
    /\ fail_left' = fail_left - 1
    /\ IF IsFinalFailure(code, tasks[t].i)
       THEN /\ tasks' = [Settled(t, Reraised(ErrOut(code, "remote")))
                            EXCEPT ![t].failures = @ + 1]
            /\ ready' = ready \o WakeHandles(tasks[t].waiters, TRUE)
       ELSE \E jitter \in BackoffJitter :
              LET d == backoff(tasks[t].i, BaseRetryBackoffMs, jitter)
              IN /\ tasks' = [tasks EXCEPT
                         ![t].status = "backoff", ![t].failures = @ + 1,
                         ![t].waits = @ + 1, ![t].wake_at = Now + d,
                         ![t].pending = (d <= 0)]
                 /\ ready' = IF d <= 0 THEN Append(ready, HT("sleep_done", t))
                             ELSE ready
    /\ token_state' = token_state_on_failure
    /\ returned' = NoReturn
    /\ UNCHANGED <<cached, sched, callers, issued, cancel_left>>
    /\ UNCHANGED tvars

catches_everything(out) == TRUE

\* `except StatelyError as e`: only the classified remote errors are caught
except_StatelyError(out) == out.kind = "err"

\* the call raised an exception that is no StatelyError: the except clause
\* does not catch it and it leaves the fetch and the refresh task
RespExc(t) ==
    /\ AwaitingService(t)
    /\ fail_left > 0
    /\ fail_left' = fail_left - 1
    /\ IF except_StatelyError(ExcOut)
       THEN /\ tasks' = [tasks EXCEPT ![t].status = "backoff", ![t].failures = @ + 1,
                                      ![t].waits = @ + 1, ![t].wake_at = Now,
                                      ![t].pending = TRUE]
            /\ ready' = Append(ready, HT("sleep_done", t))
       ELSE /\ tasks' = [Settled(t, ExcOut) EXCEPT ![t].failures = @ + 1]
            /\ ready' = ready \o WakeHandles(tasks[t].waiters, TRUE)
    /\ token_state' = token_state_on_failure
    /\ returned' = NoReturn
    /\ UNCHANGED <<cached, sched, callers, issued, cancel_left>>
    /\ UNCHANGED tvars

\* the backoff sleep is over (at once for a zero delay): `continue` with the
\* next i of `for i in range(RETRY_ATTEMPTS)`, or the statement after the
\* loop when the range is used up (lines 228-232)
SleepDone(t) ==
    /\ tasks[t].status = "backoff"
    /\ ~tasks[t].must_cancel
    /\ IF tasks[t].pending
       THEN HeadIs("sleep_done") /\ Head(ready).task = t
       ELSE MayRun /\ tasks[t].wake_at <= Now
    /\ LET q == IF tasks[t].pending THEN Tail(ready) ELSE ready
       IN IF tasks[t].i + 1 < RETRY_ATTEMPTS
          THEN /\ tasks' = [tasks EXCEPT ![t].status = "fetching", ![t].i = @ + 1,
                                         ![t].attempts = @ + 1, ![t].pending = FALSE]
               /\ ready' = q
          ELSE /\ tasks' = Settled(t, ErrOut("INTERNAL", "local"))
               /\ ready' = q \o WakeHandles(tasks[t].waiters, TRUE)
    /\ returned' = NoReturn
    /\ UNCHANGED <<token_state, cached, sched, callers, issued, fail_left, cancel_left>>
    /\ UNCHANGED tvars

\* ---- resuming the waiters of a settled refresh task ------------------------
\* the task without waiter w; the task object is dropped with its last waiter
Resumed(t, w) ==
    IF Len(tasks[t].waiters) = 1 /\ tasks[t].waiters[1] = w
    THEN [tasks EXCEPT ![t] = FreeTask]
    ELSE [tasks EXCEPT ![t].waiters = SeqWithout(@, w), ![t].delivered = @ + 1]

\* `return await cached` resumes in a caller, then `finally: cached = None`
RunWakeCaller(c) ==
    /\ HeadIs("wake") /\ Head(ready).who = W("caller", c)
    /\ LET t == callers[c].on
           out == IF callers[c].must_cancel THEN Cancelled ELSE tasks[t].out
       IN /\ cached' = cached_after_finally
          /\ tasks' = Resumed(t, W("caller", c))
          /\ returned' = Return(W("caller", c), t, out)
          /\ callers' = [callers EXCEPT ![c] =
                IF out.kind = "cancelled" THEN IdleCaller
                ELSE [IdleCaller EXCEPT !.status = "running"]]
    /\ ready' = Tail(ready)
    /\ UNCHANGED <<token_state, sched, issued, fail_left, cancel_left>>
    /\ UNCHANGED tvars

\* the same in a _schedule task, which then ends
RunWakeSched(s) ==
    /\ HeadIs("wake") /\ Head(ready).who = W("sched", s)
    /\ cached' = cached_after_finally
    /\ tasks' = Resumed(sched[s].on, W("sched", s))
    /\ sched' = [sched EXCEPT ![s] = FreeTimer]
    /\ ready' = Tail(ready)
    /\ returned' = NoReturn
    /\ UNCHANGED <<token_state, callers, issued, fail_left, cancel_left>>
    /\ UNCHANGED tvars

\* ---- _schedule(fn, delay_secs) ----------------------------------------------
\* `await asyncio.sleep(delay_secs)`: a delay <= 0 only yields to the loop
RunSchedStart(s) ==
    /\ HeadIs("sched_start") /\ Head(ready).who = W("sched", s)
    /\ sched' = [sched EXCEPT ![s].status = "sleeping",
                              ![s].due = Now + sched[s].delay,
                              ![s].pending = (sched[s].delay <= 0)]
    /\ ready' = IF sched[s].delay <= 0
                THEN Append(Tail(ready), HW("fire", W("sched", s), FALSE))
                ELSE Tail(ready)
    /\ returned' = NoReturn
    /\ UNCHANGED <<token_state, cached, tasks, callers, issued, fail_left, cancel_left>>
    /\ UNCHANGED tvars

\* the sleep is over: `await fn()`, where fn is _refresh_token: the timer
\* does not look at valid_access_token
Fire(s) ==
    /\ sched[s].status = "sleeping"
    /\ IF sched[s].pending
       THEN HeadIs("fire") /\ Head(ready).who = W("sched", s)
       ELSE MayRun /\ sched[s].due <= Now
    /\ dedupe_run(W("sched", s), IF sched[s].pending THEN Tail(ready) ELSE ready)
    /\ sched' = [sched EXCEPT ![s] =
            IF RunSuspends
            THEN [@ EXCEPT !.status = "waiting", !.on = Awaited, !.pending = FALSE]
            ELSE FreeTimer]
    /\ returned' = NoReturn
    /\ UNCHANGED <<token_state, callers, issued, fail_left, cancel_left>>
    /\ UNCHANGED tvars

\* ---- the clock ---------------------------------------------------------------
\* a loop step takes no time on the scale of TickMs: the clock advances while
\* the loop is idle, waiting for the network or for a timer
Tick ==
    /\ ready = <<>> /\ Running = {}
    /\ token_state' =
         IF token_state = NoState THEN NoState
         ELSE [token_state EXCEPT !.expires_at = Max(@ - TickMs, Past)]
    /\ sched' = [s \in Timers |->
         IF sched[s].status = "sleeping"
         THEN [sched[s] EXCEPT !.due = Max(@ - TickMs, Now)] ELSE sched[s]]
    /\ tasks' = [t \in Tasks |->
         IF tasks[t].status = "backoff"
         THEN [tasks[t] EXCEPT !.wake_at = Max(@ - TickMs, Now)] ELSE tasks[t]]
    /\ returned' = NoReturn
    /\ UNCHANGED <<cached, callers, ready, issued, fail_left, cancel_left>>
    /\ UNCHANGED tvars

Next ==
    \/ \E c \in Callers : get_token(c)
    \/ \E c \in Callers : EndStep(c)
    \/ \E c \in Callers : RunWakeCaller(c)
    \/ \E s \in Timers : RunWakeSched(s)
    \/ \E s \in Timers : RunSchedStart(s)
    \/ \E s \in Timers : Fire(s)
    \/ \E t \in Tasks : RunStart(t)
    \/ \E t \in Tasks, e \in ExpiresInValues : RespOk(t, e)
    \/ \E t \in Tasks, code \in Codes : RespErr(t, code)
    \/ \E t \in Tasks : RespExc(t)
    \/ \E t \in Tasks : SleepDone(t)
    \/ Tick

\* the application never cancels a task that is inside get_token()
Spec == Init /\ [][Next]_vars

\* the application may cancel such tasks
NextCancel ==
    \/ Next
    \/ \E c \in Callers : Cancel(c)
    \/ \E t \in Tasks : RunCancelled(t)

CancelSpec == Init /\ [][NextCancel]_vars

\* one application task and an auth service that may fail often enough to
\* use up the retry budget of a fetch
FetchSpec == InitFetch /\ [][Next]_vars

\* what the event loop and the auth service do without the application: the
\* loop runs the handle at the head of its queue, a timer that is due fires,
\* a sleep that is over resumes, the service answers with a token
Work ==
    \/ \E c \in Callers : RunWakeCaller(c)
    \/ \E s \in Timers : RunWakeSched(s) \/ RunSchedStart(s) \/ Fire(s)
    \/ \E t \in Tasks : RunStart(t) \/ SleepDone(t)
    \/ \E t \in Tasks, e \in ExpiresInValues : RespOk(t, e)

\* a running event loop: a step of an application task ends, time passes, and
\* the loop and the service get their turn however often application tasks
\* get theirs first (while the service has a token left)
InitLive ==
    /\ InitCache
    /\ callers = [c \in Callers |->
            IF c = 1 THEN IdleCaller ELSE [IdleCaller EXCEPT !.status = "absent"]]
    /\ fail_left = MaxFailures
    /\ issued = 0
    /\ cancel_left = 0
    /\ NoTransaction
    /\ NoCursors

Fairness ==
    /\ \A c \in Callers : WF_vars(EndStep(c))
    /\ SF_vars(Tick)
    /\ SF_vars(Work)

LiveSpec == InitLive /\ [][Next]_vars /\ Fairness

\* ---- properties ---------------------------------------------------------------
InFlight == {t \in Tasks : tasks[t].status \in {"created", "fetching", "backoff"}}
Failed(t) == tasks[t].status = "done" /\ tasks[t].out.kind \in {"err", "exc"}
Suspended(c) == callers[c].status = "waiting"
NonExpired == token_state # NoState /\ Now < token_state.expires_at

\* C1: get_token calls that are pending at the same time, issued while no valid
\* token was stored, are served by one fetch: any two callers suspended on a
\* refresh that has not settled yet await the same refresh task (and so get
\* the same token).
C1_ConcurrentCallsShareOneFetch ==
    \A c, d \in Callers :
        (/\ Suspended(c) /\ callers[c].on \in InFlight
         /\ Suspended(d) /\ callers[d].on \in InFlight)
        => callers[c].on = callers[d].on

\* C2: in every reachable state at most one refresh fetch is outstanding.
C2_AtMostOneFetchOutstanding == Cardinality(InFlight) <= 1

\* C3: a get_token call made while a non-expired TokenState is stored returns
\* the stored token in the same step: the caller is not suspended, no refresh
\* task is started or joined, and the dedupe slot and the loop's queue are
\* left alone, whether or not a refresh is in flight.
C3_ValidTokenReturnedAtOnce ==
    [][\A c \in Callers :
          (NonExpired /\ get_token(c)) =>
              /\ returned' = Return(W("caller", c), 0, OkOut(token_state.token))
              /\ ~Suspended(c)'
              /\ UNCHANGED <<token_state, cached, tasks, ready>>]_vars

C3_Witness ==
    /\ returned.who.kind = "caller" /\ returned.task = 0
    /\ returned.out.kind = "ok"
    /\ \E t \in Tasks : tasks[t].status = "fetching"
            /\ \E k \in 1..Len(tasks[t].waiters) : tasks[t].waiters[k].kind = "sched"

C5_RefreshNeverCancelled ==
    \A t \in Tasks : ~tasks[t].must_cancel /\ tasks[t].out.kind # "cancelled"

\* ---- proactive refresh -----------------------------------------------------------
Scheduled(s) == sched[s].status \in {"created", "sleeping"}
Fired(s) == sched[s].status \in {"waiting", "free"}
FastPathReturn ==
    returned.who.kind = "caller" /\ returned.task = 0 /\ returned.out.kind = "ok"

C7_ReturnsNewerToken == FastPathReturn => returned.out.token = issued

\* C7 (amended): as long as the auth service has a token left, the timer
\* started by a successful refresh eventually fires another refresh; a
\* successful refresh stores the token it fetched only if its expiry is later
\* than the stored one, else the stored TokenState is kept, and a get_token
\* call answered from the store returns the token of the stored TokenState.
C7_RefreshRepeats ==
    /\ \A s \in Timers : Scheduled(s) ~> (Fired(s) \/ issued = MaxTokens)
    /\ [][issued' > issued =>
            IF token_state = NoState
                  \/ token_state'.expires_at > token_state.expires_at
            THEN token_state'.token = issued'
            ELSE token_state' = token_state]_vars
    /\ [](FastPathReturn => NonExpired /\ returned.out.token = token_state.token)

\* a get_token call is answered with the second token, which a refresh
\* started by the timer alone had fetched
C7_Witness ==
    /\ FastPathReturn /\ returned.out.token = 2 /\ issued = 2
    /\ \E s \in Timers :
          /\ sched[s].status = "waiting"
          /\ tasks[sched[s].on].status = "done"
          /\ tasks[sched[s].on].out = OkOut(2)
          /\ tasks[sched[s].on].waiters = <<W("sched", s)>>

\* ---- one fetch: fetch_stately_access_token ------------------------------------------
AllWoken(t) ==
    \A k \in 1..Len(tasks[t].waiters) :
        \E j \in 1..Len(ready) :
            ready[j].kind = "wake" /\ ready[j].who = tasks[t].waiters[k]
LeavesAwait(c) == Suspended(c) /\ ~Suspended(c)'

\* C8: a GetAuthToken failure with a non-retryable code ends the fetch in the
\* same step: no further attempt and no backoff wait follow it, the refresh
\* settles with exactly that error and every joined caller is resumed with
\* it; when it is the first failure of the fetch, the fetch made exactly one
\* attempt and never waited.
C8_NonRetryableFailsAtOnce ==
    /\ [][\A t \in Tasks, code \in NON_RETRYABLE_ERRORS :
            RespErr(t, code) =>
                /\ tasks'[t].status = "done"
                /\ tasks'[t].out = ErrOut(code, "remote")
                /\ tasks'[t].attempts = tasks[t].attempts
                /\ tasks'[t].waits = tasks[t].waits
                /\ AllWoken(t)']_vars
    /\ [](\A t \in Tasks :
            (Failed(t) /\ tasks[t].out.code \in NON_RETRYABLE_ERRORS
                /\ tasks[t].failures = 1) =>
                tasks[t].attempts = 1 /\ tasks[t].waits = 0)
    /\ [][\A c \in Callers :
            (LeavesAwait(c) /\ Failed(callers[c].on)
                /\ tasks[callers[c].on].out.code \in NON_RETRYABLE_ERRORS) =>
                returned' = Return(W("caller", c), callers[c].on,
                                   tasks[callers[c].on].out)]_vars

\* the caller is handed a non-retryable error after one attempt and no wait
C8_Witness ==
    /\ returned.who.kind = "caller"
    /\ returned.out.kind = "err" /\ returned.out.code \in NON_RETRYABLE_ERRORS
    /\ returned.out.origin = "remote"
    /\ fail_left = RETRY_ATTEMPTS + MaxFailures - 1

\* C9: with retryable failures the fetch goes on until its first success:
\* while it runs it has made one attempt more than it has seen failures, a
\* success after k failures (k < 10) ends it after exactly k + 1 attempts with
\* a token for the callers (the fetched token whenever that is installed), and
\* a fetch that ends with a retryable error has made exactly 10 attempts,
\* all failed; the error is handed to the caller.
C9_RetriesUntilSuccessOrTenAttempts ==
    /\ [](\A t \in Tasks :
            /\ tasks[t].attempts <= RETRY_ATTEMPTS
            /\ tasks[t].status = "fetching" => tasks[t].attempts = tasks[t].failures + 1
            /\ tasks[t].status = "backoff" => tasks[t].attempts = tasks[t].failures
            /\ (tasks[t].status = "done" /\ tasks[t].out.kind = "ok") =>
                  /\ tasks[t].failures < RETRY_ATTEMPTS
                  /\ tasks[t].attempts = tasks[t].failures + 1
            /\ (Failed(t) /\ tasks[t].out.code \in RetryableCodes) =>
                  /\ tasks[t].attempts = RETRY_ATTEMPTS
                  /\ tasks[t].failures = RETRY_ATTEMPTS)
    /\ [][\A t \in Tasks :
            (tasks[t].status = "fetching" /\ issued' > issued
                /\ tasks'[t].status = "done") =>
                /\ tasks'[t].out = OkOut(token_state'.token)
                /\ tasks'[t].attempts = tasks[t].attempts
                /\ (token_state = NoState => tasks'[t].out.token = issued')
                /\ AllWoken(t)']_vars
    /\ [][\A c \in Callers :
            (LeavesAwait(c) /\ tasks[callers[c].on].failures > 0) =>
                returned' = Return(W("caller", c), callers[c].on,
                                   tasks[callers[c].on].out)]_vars

\* a fetch has succeeded at its 10th attempt, after 9 failures, and its
\* caller is about to be resumed with the token
C9_Witness ==
    \E t \in Tasks :
        /\ tasks[t].waiters = <<W("caller", 1)>> /\ AllWoken(t)
        /\ tasks[t].status = "done" /\ tasks[t].out = OkOut(issued)
        /\ tasks[t].failures = RETRY_ATTEMPTS - 1
        /\ tasks[t].attempts = RETRY_ATTEMPTS

\* C10 (as claimed): when 10 attempts have failed with retryable codes, the
\* refresh ends with the internal exhausted-retry error, not with the error
\* of the auth service.
C10_ExhaustedRaisesInternal ==
    \A t \in Tasks :
        (Failed(t) /\ tasks[t].attempts = RETRY_ATTEMPTS) =>
            tasks[t].out.code = "INTERNAL" /\ tasks[t].out.origin = "local"

\* C10 (amended): when 10 attempts have failed with retryable codes, the error
\* surfaced to the caller is the error of the 10th GetAuthToken call itself,
\* re-raised as it was caught; no refresh ever ends with the internal
\* exhausted-retry error.
C10_ExhaustedReraisesLastError ==
    /\ [][\A t \in Tasks, code \in RetryableCodes :
            (RespErr(t, code) /\ tasks[t].attempts = RETRY_ATTEMPTS) =>
                /\ tasks'[t].status = "done"
                /\ tasks'[t].out = ErrOut(code, "remote")
                /\ AllWoken(t)']_vars
    /\ [](\A t \in Tasks : tasks[t].out.origin # "local")
    /\ [](returned.out.kind = "err" => returned.out.origin = "remote")

\* the caller is handed the retryable error of the 10th failed attempt
C10_Witness ==
    /\ returned.who.kind = "caller" /\ returned.out.kind = "err"
    /\ returned.out.code \in RetryableCodes /\ returned.out.origin = "remote"
    /\ fail_left = MaxFailures

\* ---- the stored TokenState --------------------------------------------------------
\* the step is a successful fetch that reported expires_in_s = e
Fetched(e) ==
    /\ issued' > issued
    /\ \E s \in Timers : /\ sched[s].status = "free" /\ sched'[s].status = "created"
                         /\ sched'[s].expires_in = e

\* C11: the expiry of the stored TokenState never moves backward: a fetched
\* token replaces a stored state only if the expiry computed for it is
\* strictly later than the stored one, and then it is stored with that
\* expiry; on a tie (and on an earlier expiry) the stored state is kept.
C11_ExpiryNeverMovesBack ==
    [][\A e \in ExpiresInValues :
          (Fetched(e) /\ token_state # NoState) =>
              /\ token_state'.expires_at >= token_state.expires_at
              /\ IF Now + 1000 * e > token_state.expires_at
                 THEN token_state' = [token |-> issued', expires_at |-> Now + 1000 * e]
                 ELSE token_state' = token_state]_vars

\* a second token with the same expiry as the stored one has just been
\* fetched and the stored state is still the first
C11_Witness ==
    /\ issued = 2 /\ token_state = [token |-> 1, expires_at |-> Now]
    /\ \E s \in Timers : sched[s].status = "created" /\ sched[s].expires_in = 0

\* C12: a refresh hands the token it has just fetched to its caller, also
\* when the stored TokenState is kept because the fetched expiry is not later.
C12_CallerGetsFetchedToken ==
    [][\A t \in Tasks :
          (tasks[t].status = "fetching" /\ tasks'[t].status = "done"
              /\ issued' > issued) =>
              tasks'[t].out = OkOut(issued')]_vars

\* C13: no TokenState is installed whose expires_at is at or before the
\* moment of its installation, whatever expires-in the fetch reports.
C13_InstalledStateNotExpired ==
    [][(issued' > issued /\ token_state' # token_state) =>
          token_state'.expires_at > Now]_vars

\* ---- a transaction session -----------------------------------------------------
avars == <<token_state, cached, tasks, sched, callers, ready, returned, issued,
           fail_left, cancel_left, bo>>

\* Transaction(...) has been constructed and `async with` is about to enter it
InitTxn ==
    /\ InitCache
    /\ callers = [c \in Callers |-> IdleCaller]
    /\ fail_left = MaxFailures
    /\ issued = 0
    /\ cancel_left = MaxCancels
    /\ pc = "new"
    /\ message_id = 1
    /\ stream = NewStream
    /\ awaiting = NoExpect
    /\ inbound = <<>>
    /\ result = [value |-> NoResult, assigned |-> 0]
    /\ exc = NoExc
    /\ raised = NoExc
    /\ ops_left = MaxOps
    /\ put = NoPut
    /\ NoCursors

next_message_id_stuck(m) == m

\* _next_message_id: increment, then return
next_message_id(m) == m + 1

\* stream.send_message(request, end=...)
send_message(req) ==
    [state |-> IF req.end THEN "half_closed" ELSE stream.state,
     sent |-> Append(stream.sent, req)]

\* the answer to a request of the block taken as it comes
expect_response_unchecked(resp, during) ==
    IF resp = StreamEnd THEN Exc("ValueError", during)
    ELSE IF during # "list_page" THEN NoExc
    ELSE IF resp.message_id # awaiting.message_id THEN Exc("ValueError", during)
    ELSE IF resp.result # awaiting.field THEN Exc("ValueError", during)
    ELSE NoExc

expect_response_any_id(resp, during) ==
    IF resp = StreamEnd THEN Exc("ValueError", during)
    ELSE IF resp.result # awaiting.field THEN Exc("ValueError", during)
    ELSE NoExc

\* _expect_response on the message recv_message() returned: the exception it
\* raises, or NoExc when the message is the awaited one
expect_response(resp, during) ==
    IF resp = StreamEnd THEN Exc("ValueError", during)
    ELSE IF resp.message_id # awaiting.message_id THEN Exc("ValueError", during)
    ELSE IF resp.result # awaiting.field THEN Exc("ValueError", during)
    ELSE NoExc

commit_result_uncommitted(resp) ==
    TransactionResult([k \in DOMAIN resp.put_results |-> unmarshal(resp.put_results[k])],
                      FALSE)

\* _commit: the result built from the `finished` response
commit_result(resp) ==
    TransactionResult([k \in DOMAIN resp.put_results |-> unmarshal(resp.put_results[k])],
                      resp.committed)

\* what put_batch appends for one generated ID: the integer, the UUID built
\* from the bytes, or None
PyInt(n) == [type |-> "int", value |-> n]
UUID(b) == [type |-> "UUID", value |-> b]
PyNone == [type |-> "None", value |-> 0]

put_batch_out_no_none(ids) ==
    [k \in DOMAIN ids |->
        IF ids[k].value = "bytes" THEN UUID(ids[k].data) ELSE PyInt(ids[k].data)]

\* put_batch: the list built from the generated_ids of the put_ack
put_batch_out(ids) ==
    [k \in DOMAIN ids |->
        IF ids[k].value = "uint" THEN PyInt(ids[k].data)
        ELSE IF ids[k].value = "bytes" THEN UUID(ids[k].data)
        ELSE PyNone]

abort_result_committed == TransactionResult(<<>>, TRUE)

\* __aexit__ after an abort: TransactionResult(puts=[], committed=False)
abort_result == TransactionResult(<<>>, FALSE)

Assign(value) == [value |-> value, assigned |-> result.assigned + 1]

\* __aenter__: open the stream and send `begin`; no response is awaited.  When
\* the send raises, the error leaves `async with` and __aexit__ never runs.
aenter(ok) ==
    /\ pc = "new"
    /\ message_id' = next_message_id(message_id)
    /\ IF ok
       THEN /\ stream' = [send_message(Request(message_id', "begin")) EXCEPT !.state = "open"]
            /\ pc' = "active"
            /\ raised' = NoExc
       ELSE /\ stream' = [stream EXCEPT !.state = "open"]
            /\ pc' = "not_entered"
            /\ raised' = Exc("StreamError", "begin")
    /\ UNCHANGED <<awaiting, inbound, result, exc, ops_left, put>>
    /\ UNCHANGED cvars
    /\ UNCHANGED avars

Finish_goes_on(c, t) == [c EXCEPT !.token = t]

\* a finished page: token_receiver.token = r.finished.token, and the
\* generator returns
Finish(c, t) == [c EXCEPT !.state = "ended", !.token = t]

\* the items of a result page, unmarshalled, in the order of the page
list_events(page) == [k \in DOMAIN page.items |-> unmarshal(page.items[k])]

\* begin_list / continue_list return the ListResult around a generator that
\* has not run yet and reads under the message ID of the list request
ListCursor(id) ==
    [kind |-> "txn_list", state |-> "suspended", message_id |-> id, buffer |-> <<>>,
     token |-> "None", error |-> NoExc]

list_expect_latest(c) == Expect(message_id, "list_page")

\* _stream_list_responses(message_id): every page is awaited under the
\* message ID of the list request, as list_results
list_expect(c) == Expect(c.message_id, "list_page")

awaits_response_none(cmd) == FALSE

\* the calls made through _request_response, which reads one response; delete
\* and the list calls go through _request_only
awaits_response(cmd) == cmd \in {"get_items", "put_items"}

\* the block calls get/get_batch, put/put_batch, delete, begin_list or
\* continue_list: _request_only sends the request under the next message ID;
\* get and put then await one response, delete returns at once, and the list
\* calls return a cursor that has read nothing yet.  A send that raises ends
\* the block.
BlockRequest(cmd, ok) ==
    /\ pc = "active"
    /\ ops_left > 0
    /\ ops_left' = ops_left - 1
    /\ message_id' = next_message_id(message_id)
    /\ IF ok
       THEN /\ stream' = send_message(Request(message_id', cmd))
            /\ exc' = exc
            /\ IF awaits_response(cmd)
               THEN pc' = "awaiting" /\ awaiting' = Expect(message_id', cmd)
               ELSE pc' = "active" /\ awaiting' = NoExpect
       ELSE /\ stream' = stream
            /\ exc' = Exc("StreamError", cmd)
            /\ pc' = "exit"
            /\ awaiting' = awaiting
    /\ IF cmd = "put_items" /\ ok
       THEN \E n \in 1 .. MaxItems : put' = [put EXCEPT !.items = n]
       ELSE put' = put
    /\ IF cmd \in {"begin_list", "continue_list"} /\ ok
       THEN cursor' = ListCursor(message_id') /\ emitted' = <<>>
       ELSE UNCHANGED <<cursor, emitted>>
    /\ UNCHANGED <<inbound, result, raised, pages, cstream>>
    /\ UNCHANGED avars

\* the caller asks the cursor of a list for the next item: the handler yields
\* the next item of the page it is in, or _stream_list_responses awaits a page
\* under the message ID of the list request
list_anext ==
    /\ pc = "active"
    /\ cursor.kind = "txn_list" /\ cursor.state = "suspended"
    /\ IF cursor.buffer # <<>>
       THEN /\ emitted' = Append(emitted, Head(cursor.buffer))
            /\ cursor' = [cursor EXCEPT !.buffer = Tail(@)]
            /\ UNCHANGED <<pc, awaiting>>
       ELSE /\ emitted' = emitted
            /\ cursor' = [cursor EXCEPT !.state = "reading"]
            /\ pc' = "awaiting"
            /\ awaiting' = list_expect(cursor)
    /\ UNCHANGED <<message_id, stream, inbound, result, exc, raised, ops_left, put>>
    /\ UNCHANGED <<pages, cstream>>
    /\ UNCHANGED avars

\* the handler of a list inside a transaction on the outcome of one page read:
\* an error of the read ends the cursor and the block; the items of a result
\* page are yielded one by one, an empty page makes the handler read on under
\* the same message ID; a finished page stores the token and ends the
\* sequence, the session going on; a page with nothing set is an error
SettlePage(e, resp) ==
    IF e # NoExc
    THEN /\ cursor' = [cursor EXCEPT !.state = "failed", !.error = e, !.buffer = <<>>]
         /\ emitted' = emitted
         /\ pc' = "exit" /\ exc' = e /\ awaiting' = NoExpect
    ELSE CASE resp.body.response = "result" ->
                IF resp.body.items = <<>>
                THEN UNCHANGED <<cursor, emitted, pc, exc, awaiting>>
                ELSE /\ emitted' = Append(emitted, Head(list_events(resp.body)))
                     /\ cursor' = [cursor EXCEPT !.state = "suspended",
                                                 !.buffer = Tail(list_events(resp.body))]
                     /\ pc' = "active" /\ exc' = exc /\ awaiting' = NoExpect
           [] resp.body.response = "finished" ->
                /\ cursor' = Finish(cursor, resp.body.token)
                /\ emitted' = emitted
                /\ pc' = "active" /\ exc' = exc /\ awaiting' = NoExpect
           [] resp.body.response = "unset" ->
                /\ cursor' = [cursor EXCEPT !.state = "failed",
                                            !.error = Exc("ValueError", "page")]
                /\ emitted' = emitted
                /\ pc' = "exit" /\ exc' = Exc("ValueError", "page")
                /\ awaiting' = NoExpect

\* _expect_response reads the body of a response only after its ID and its
\* variant were accepted: a response it rejects is modelled without a body,
\* one it accepts with the body of its variant
\* the list pages the session has read so far
PagesRead == Cardinality({k \in DOMAIN inbound : inbound[k].result = "list_results"})

HasBody(resp) == resp.body # <<>> \/ resp.committed \/ resp.put_results # <<>>

Accepted(resp) == resp.message_id = awaiting.message_id /\ resp.result = awaiting.field

\* what follows once the awaited response has been read (e = NoExc) or the
\* wait has raised e: a request of the block returns to the block or ends it
\* with e; _commit stores the result built from the response, and its error
\* leaves __aexit__ before anything is stored; after _abort the finally clause
\* stores the empty result, and an error of _abort leaves __aexit__
Settle(e, resp) ==
  IF awaiting.command = "list_page"
  THEN SettlePage(e, resp) /\ UNCHANGED <<result, raised, put>>
  ELSE
    /\ UNCHANGED <<cursor, emitted>>
    /\ awaiting' = NoExpect
    /\ put' = IF awaiting.command = "put_items" /\ e = NoExc
              THEN [put EXCEPT !.out = put_batch_out(resp.body), !.returns = @ + 1]
              ELSE put
    /\ CASE awaiting.command \in BlockCommands ->
              /\ pc' = IF e = NoExc THEN "active" ELSE "exit"
              /\ exc' = e
              /\ UNCHANGED <<result, raised>>
         [] awaiting.command = "commit" ->
              /\ pc' = IF e = NoExc THEN "stream_exit" ELSE "closed"
              /\ result' = IF e = NoExc THEN Assign(commit_result(resp)) ELSE result
              /\ raised' = e
              /\ exc' = exc
         [] awaiting.command = "abort" ->
              /\ pc' = IF e = NoExc THEN "stream_exit" ELSE "closed"
              /\ result' = Assign(abort_result)
              /\ raised' = e
              /\ exc' = exc

\* recv_message() returns a message of the server, or None
RecvMessage(resp) ==
    /\ pc = "awaiting"
    /\ resp \in ServerResponses(awaiting.message_id) \cup {StreamEnd}
    /\ (awaiting.command = "list_page" /\ Accepted(resp)) => PagesRead < MaxReads
    /\ HasBody(resp) => Accepted(resp)
    /\ (resp.result = "list_results" /\ Accepted(resp)) => HasBody(resp)
    /\ inbound' = Append(inbound, resp)
    /\ Settle(expect_response(resp, awaiting.command), resp)
    /\ UNCHANGED <<message_id, stream, ops_left>>
    /\ UNCHANGED <<pages, cstream>>
    /\ UNCHANGED avars

\* recv_message() raises: the stream has failed
RecvFails ==
    /\ pc = "awaiting"
    /\ Settle(Exc("StreamError", awaiting.command), StreamEnd)
    /\ UNCHANGED <<message_id, stream, inbound, ops_left>>
    /\ UNCHANGED <<pages, cstream>>
    /\ UNCHANGED avars

\* the block raises an error of its own
BlockRaises ==
    /\ pc = "active"
    /\ pc' = "exit"
    /\ exc' = Exc("CallerError", "block")
    /\ UNCHANGED <<message_id, stream, awaiting, inbound, result, raised, ops_left, put>>
    /\ UNCHANGED cvars
    /\ UNCHANGED avars

\* the block runs to its end
BlockEnds ==
    /\ pc = "active"
    /\ pc' = "exit"
    /\ exc' = NoExc
    /\ UNCHANGED <<message_id, stream, awaiting, inbound, result, raised, ops_left, put>>
    /\ UNCHANGED cvars
    /\ UNCHANGED avars

\* an exit that commits whatever the block did
exit_command_commits(e) == "commit"

\* the branch of __aexit__: `if exc_type is not None` aborts, else commits
exit_command(e) == IF e # NoExc THEN "abort" ELSE "commit"

\* __aexit__ up to its first await: _abort when the block raised, _commit
\* otherwise, each sent with end=True.  A send that raises leaves __aexit__,
\* through the finally clause in the case of _abort.
aexit(ok) ==
    /\ pc = "exit"
    /\ message_id' = next_message_id(message_id)
    /\ IF ok
       THEN /\ stream' = send_message(Request(message_id', exit_command(exc)))
            /\ awaiting' = Expect(message_id', exit_command(exc))
            /\ pc' = "awaiting"
            /\ UNCHANGED <<result, raised>>
       ELSE /\ stream' = stream
            /\ awaiting' = awaiting
            /\ pc' = "closed"
            /\ raised' = Exc("StreamError", exit_command(exc))
            /\ result' = IF exc # NoExc THEN Assign(abort_result) ELSE result
    /\ UNCHANGED <<inbound, exc, ops_left, put>>
    /\ UNCHANGED cvars
    /\ UNCHANGED avars

\* the rest of __aexit__: stream.__aexit__(exc_type, ...) and `return False`,
\* which lets the block's exception go on to the caller.  The stream reports
\* the final status of the call, and so may raise, only when it is handed no
\* exception.
stream_aexit(ok) ==
    /\ pc = "stream_exit"
    /\ exc = NoExc \/ ok
    /\ stream' = [stream EXCEPT !.state = "exited"]
    /\ pc' = "closed"
    /\ raised' = IF exc # NoExc THEN exc
                 ELSE IF ok THEN NoExc ELSE Exc("StreamError", "close")
    /\ UNCHANGED <<message_id, awaiting, inbound, result, exc, ops_left, put>>
    /\ UNCHANGED cvars
    /\ UNCHANGED avars

TxnNext ==
    \/ \E ok \in BOOLEAN : aenter(ok)
    \/ \E cmd \in BlockCommands, ok \in BOOLEAN : BlockRequest(cmd, ok)
    \/ \E resp \in Responses : RecvMessage(resp)
    \/ RecvFails
    \/ list_anext
    \/ BlockRaises
    \/ BlockEnds
    \/ \E ok \in BOOLEAN : aexit(ok)
    \/ \E ok \in BOOLEAN : stream_aexit(ok)

TxnSpec == InitTxn /\ [][TxnNext]_vars

\* ---- properties of a transaction session ---------------------------------------
Sent(i) == stream.sent[i]
SentCommands == {Sent(i).command : i \in DOMAIN stream.sent}

\* C14: entering a session sends begin with message ID 1 as the first message
\* of the stream, and the session is active before any response has been
\* awaited.
C14_BeginIsMessageOne ==
    stream.sent # <<>> =>
        /\ Sent(1) = [message_id |-> 1, command |-> "begin", end |-> FALSE]
        /\ Len(stream.sent) = 1 => inbound = <<>>

\* C15: within one session every request is sent with a message ID strictly
\* greater than that of every earlier request, and the counter is never behind
\* an ID already used, so no ID is reused.
C15_MessageIDsStrictlyIncrease ==
    /\ \A i, j \in DOMAIN stream.sent :
          i < j => Sent(i).message_id < Sent(j).message_id
    /\ \A i \in DOMAIN stream.sent : Sent(i).message_id <= message_id

C15_Witness ==
    /\ Len(stream.sent) = 4
    /\ Sent(1).command = "begin"
    /\ Sent(2).command = "get_items"
    /\ Sent(3).command = "begin_list"
    /\ Sent(4).command = "commit"

Finished == {i \in DOMAIN inbound : inbound[i].result = "finished"}
LastRead == inbound[Len(inbound)]
LastSent == Sent(Len(stream.sent))

\* C16: when the block exits without error (for instance after a get and a
\* put), commit is sent by the exit itself, exactly one finished response is
\* read, and the session's result is built from that response: committed is
\* the response's committed flag (true when the server committed) and puts
\* are the response's put results, unmarshalled, in the same order.
C16_CommitResultFromFinished ==
    (result.assigned > 0 /\ exc = NoExc) =>
        /\ LastSent = [message_id |-> message_id, command |-> "commit", end |-> TRUE]
        /\ "abort" \notin SentCommands
        /\ Cardinality(Finished) = 1
        /\ LastRead.result = "finished" /\ LastRead.message_id = message_id
        /\ result.assigned = 1
        /\ result.value.committed = LastRead.committed
        /\ Len(result.value.puts) = Len(LastRead.put_results)
        /\ \A k \in DOMAIN LastRead.put_results :
              result.value.puts[k] = unmarshal(LastRead.put_results[k])

C16_Witness ==
    /\ pc = "closed" /\ raised = NoExc
    /\ [i \in DOMAIN stream.sent |-> Sent(i).command]
          = <<"begin", "get_items", "put_items", "commit">>
    /\ Len(inbound) = 3
    /\ LastRead.committed /\ LastRead.put_results = <<2, 1>>
    /\ result.value = TransactionResult(<<unmarshal(2), unmarshal(1)>>, TRUE)

BlockRaised == exc # NoExc

\* C17: when the block raises, at whatever point of the session, the exit
\* sends abort and never commit, the session's result is {puts: [],
\* committed: false}, and the exception that leaves the session is the one
\* the block raised.
C17_BlockErrorAbortsAndPropagates ==
    (BlockRaised /\ pc \in {"awaiting", "stream_exit", "closed"}) =>
        /\ "commit" \notin SentCommands
        /\ pc = "awaiting" => LastSent.command = "abort"
        /\ pc # "awaiting" =>
              /\ result = [value |-> TransactionResult(<<>>, FALSE), assigned |-> 1]
              /\ pc = "closed" => raised = exc

\* the step in which the abort of a failing exit fails: its send raises, or
\* the wait for its finished response does
AbortFails ==
    /\ BlockRaised
    /\ pc' = "closed"
    /\ \/ pc = "exit"
       \/ pc = "awaiting" /\ awaiting.command = "abort"

\* C18: when the abort issued on a failing exit itself fails, the session's
\* result is still the empty uncommitted one and the error that leaves the
\* session is the block's original error, not the abort's.
C18_AbortFailureKeepsOriginalError ==
    [][AbortFails =>
          /\ result'.value = TransactionResult(<<>>, FALSE)
          /\ raised' = exc]_vars

\* C19: after an abort the session's result is empty with committed = false,
\* whatever the finished response of the server contains.
C19_AbortResultIsEmpty ==
    (BlockRaised /\ result.assigned > 0) =>
        /\ result.value.puts = <<>>
        /\ result.value.committed = FALSE

C19_Witness ==
    /\ pc = "closed"
    /\ LastSent.command = "abort"
    /\ inbound # <<>>
    /\ LastRead = Response(message_id, "finished", TRUE, <<2, 1>>)
    /\ result.value = [puts |-> <<>>, committed |-> FALSE]

\* C20: on every exit path of a session (commit succeeds or fails, abort
\* succeeds or fails) exactly one TransactionResult has been assigned when the
\* session is closed, and none is assigned while the block still runs.
C20_OneResultAtClose ==
    /\ pc = "closed" => result.assigned = 1
    /\ pc \in {"new", "active", "exit"} => result.assigned = 0
    /\ pc = "awaiting" /\ awaiting.command \in BlockCommands => result.assigned = 0

\* the step reads a message from the stream for the awaited response
Reads == pc = "awaiting" /\ Len(inbound') = Len(inbound) + 1
Read == inbound'[Len(inbound')]

\* the error with which the awaiting call ends in this step: it ends the
\* block, or leaves __aexit__ when commit or abort was waiting
RaisedByStep ==
    IF awaiting.command \in BlockCommands \cup {"list_page"} THEN exc' ELSE raised'

\* the handler of a list raises on the page it was handed
HandlerRaises == awaiting.command = "list_page" /\ exc' = Exc("ValueError", "page")

\* the awaiting call returns the response's value in this step: to the block,
\* to the exit, or to the handler of a list, which yields, reads on or raises
ReturnsValue ==
    \/ pc' \in {"active", "stream_exit"}
    \/ awaiting.command = "list_page" /\ pc' = "awaiting"
    \/ HandlerRaises

\* C21: whenever a response is awaited for message ID m and variant k, an
\* error is raised if the stream has ended, if the response's message ID is
\* not m, or if its populated variant is not k (none populated included); a
\* value is returned only when all three checks pass.
C21_MismatchAlwaysRaises ==
    [][Reads =>
          IF /\ Read # StreamEnd
             /\ Read.message_id = awaiting.message_id
             /\ Read.result = awaiting.field
          THEN ReturnsValue /\ (RaisedByStep = NoExc \/ HandlerRaises)
          ELSE /\ ~ReturnsValue
               /\ RaisedByStep = Exc("ValueError", awaiting.command)]_vars

C21_Witness ==
    /\ pc = "exit"
    /\ exc = Exc("ValueError", "get_items")
    /\ inbound # <<>>
    /\ LastRead = Response(message_id - 1, "get_results", FALSE, <<>>)
    /\ LastSent = Request(message_id, "get_items")

\* C22: on every exit path of a session (a protocol error found by an
\* operation, a failing commit and a failing abort included) the exit hook of
\* the stream has run when the session is closed and the error reaches the
\* caller.
C22_StreamClosedOnEveryExit ==
    pc = "closed" => stream.state = "exited"

\* C23: a request is sent with the end-of-stream flag exactly when it is
\* commit or abort, and the stream is half-closed only by such a request;
\* begin, get, put, delete, begin_list and continue_list never half-close it.
C23_HalfCloseIffTerminal ==
    /\ \A i \in DOMAIN stream.sent :
          Sent(i).end <=> Sent(i).command \in {"commit", "abort"}
    /\ stream.state \in {"half_closed", "exited"} <=> (stream.sent # <<>> /\ LastSent.end)

C23_Witness ==
    /\ stream.state = "half_closed"
    /\ [i \in DOMAIN stream.sent |-> Sent(i).command]
          = <<"begin", "put_items", "delete_items", "abort">>
    /\ [i \in DOMAIN stream.sent |-> Sent(i).end] = <<FALSE, FALSE, FALSE, TRUE>>

\* the step in which the block issues cmd and its request goes out
Issues(cmd) ==
    /\ pc = "active"
    /\ Len(stream'.sent) = Len(stream.sent) + 1
    /\ stream'.sent[Len(stream'.sent)].command = cmd

\* the request of this step carries a message ID no earlier request carried
NewMessageID ==
    /\ message_id' > message_id
    /\ stream'.sent[Len(stream'.sent)].message_id = message_id'
    /\ \A i \in DOMAIN stream.sent : Sent(i).message_id < message_id'

\* the step in which a get or put returns to the block
ReturnsToBlock ==
    /\ pc = "awaiting" /\ awaiting.command \in {"get_items", "put_items"}
    /\ pc' = "active"

\* the call is left waiting for the response to the request of this step,
\* nothing having been read yet
WaitsForOwnResponse ==
    /\ pc' = "awaiting"
    /\ awaiting'.message_id = message_id'
    /\ inbound' = inbound

\* get and put return in a step that reads one response with their own ID
ReturnAfterOneResponse ==
    ReturnsToBlock =>
        /\ Reads
        /\ Read.message_id = awaiting.message_id
        /\ awaiting.message_id = message_id

\* C24 as stated: each get, put and delete allocates a new message ID, sends
\* its command, and returns only after reading exactly one response
\* correlated to that ID.
C24_EachOperationAwaitsOneResponse ==
    [][/\ \A cmd \in {"get_items", "put_items", "delete_items"} :
             Issues(cmd) => (NewMessageID /\ WaitsForOwnResponse)
       /\ ReturnAfterOneResponse]_vars

\* C24, amended: each get, put and delete allocates a new message ID and
\* sends its command; get and put return only after reading exactly one
\* response correlated to that ID, while delete returns as soon as its
\* request is sent, without reading a response.
C24_GetPutAwaitOneResponse ==
    [][/\ \A cmd \in {"get_items", "put_items"} :
             Issues(cmd) => (NewMessageID /\ WaitsForOwnResponse)
       /\ Issues("delete_items") =>
             (NewMessageID /\ pc' = "active" /\ inbound' = inbound /\ awaiting' = NoExpect)
       /\ ReturnAfterOneResponse]_vars

C24_Witness ==
    /\ pc = "active"
    /\ [i \in DOMAIN stream.sent |-> Sent(i).command]
          = <<"begin", "delete_items", "get_items">>
    /\ inbound = <<Response(message_id, "get_results", FALSE, <<>>)>>

\* the step in which put_batch returns its list to the block
PutReturns ==
    /\ pc = "awaiting" /\ awaiting.command = "put_items"
    /\ pc' = "active"

\* C25: put_batch returns one entry per generated ID of the acknowledgement,
\* in the same order, which is one entry per input item in input order when
\* the server acknowledges every item: the integer when the ID carries one,
\* the UUID built from the bytes when it carries bytes, None when it carries
\* nothing.
C25_PutBatchReturnsGeneratedIDs ==
    [][PutReturns =>
          /\ Reads /\ Read.result = "put_ack"
          /\ put'.returns = put.returns + 1
          /\ Len(put'.out) = Len(Read.body)
          /\ Len(Read.body) = put.items => Len(put'.out) = put.items
          /\ \A k \in DOMAIN Read.body :
                put'.out[k] =
                    CASE Read.body[k].value = "uint" ->
                             [type |-> "int", value |-> Read.body[k].data]
                      [] Read.body[k].value = "bytes" ->
                             [type |-> "UUID", value |-> Read.body[k].data]
                      [] Read.body[k].value = "unset" ->
                             [type |-> "None", value |-> 0]]_vars

C25_Witness ==
    /\ pc = "active"
    /\ put.items = 2 /\ put.returns = 1
    /\ LastSent.command = "put_items"
    /\ LastRead = PutAck(message_id, <<GenUnset, GenBytes(16)>>)
    /\ put.out = <<[type |-> "None", value |-> 0], [type |-> "UUID", value |-> 16]>>

\* ---- a sync cursor: Client.sync_list and handle_sync_response ---------------------
\* continuation tokens a finished page may carry
Tokens == {"T1", "T2"}
NoToken == "None"

\* a SyncListResponse: its `response` oneof is reset, result, finished, or unset
ResetPage ==
    [response |-> "reset", changed |-> <<>>, deleted |-> <<>>, outside |-> <<>>,
     token |-> ""]
ResultPage(changed, deleted, outside) ==
    [response |-> "result", changed |-> changed, deleted |-> deleted,
     outside |-> outside, token |-> ""]
FinishedPage(t) ==
    [response |-> "finished", changed |-> <<>>, deleted |-> <<>>, outside |-> <<>>,
     token |-> t]
UnsetPage ==
    [response |-> "unset", changed |-> <<>>, deleted |-> <<>>, outside |-> <<>>,
     token |-> ""]

\* the pages a server may send
SyncPages ==
    {ResetPage, UnsetPage}
    \cup {FinishedPage(t) : t \in Tokens}
    \cup {ResultPage(c, d, o) : c \in {<<>>, <<1>>, <<2, 1>>},
                                d \in {<<>>, <<"/x">>},
                                o \in {<<>>, <<"/z", "/y">>}}

SyncReset == [type |-> "SyncReset"]
SyncChangedItem(item) == [type |-> "SyncChangedItem", item |-> item]
SyncDeletedItem(key_path) == [type |-> "SyncDeletedItem", key_path |-> key_path]
SyncUpdatedItemKeyOutsideListWindow(key_path) ==
    [type |-> "SyncUpdatedItemKeyOutsideListWindow", key_path |-> key_path]

result_events_deleted_first(r) ==
    [k \in DOMAIN r.deleted |-> SyncDeletedItem(r.deleted[k])]
    \o [k \in DOMAIN r.changed |-> SyncChangedItem(unmarshal(r.changed[k]))]
    \o [k \in DOMAIN r.outside |-> SyncUpdatedItemKeyOutsideListWindow(r.outside[k])]

\* the events a result page is turned into: the three loops over
\* changed_items, deleted_items and updated_item_keys_outside_list_window
result_events(r) ==
    [k \in DOMAIN r.changed |-> SyncChangedItem(unmarshal(r.changed[k]))]
    \o [k \in DOMAIN r.deleted |-> SyncDeletedItem(r.deleted[k])]
    \o [k \in DOMAIN r.outside |-> SyncUpdatedItemKeyOutsideListWindow(r.outside[k])]

\* the events of one page
page_events(r) ==
    IF r.response = "reset" THEN <<SyncReset>>
    ELSE IF r.response = "result" THEN result_events(r)
    ELSE <<>>

\* Client.sync_list has opened the stream, sent the request and returned the
\* ListResult around a generator that has not run yet
SyncCursor ==
    [kind |-> "sync", state |-> "suspended", message_id |-> 0, buffer |-> <<>>,
     token |-> NoToken, error |-> NoExc]

InitSync ==
    /\ InitCache
    /\ callers = [c \in Callers |-> IdleCaller]
    /\ fail_left = MaxFailures
    /\ issued = 0
    /\ cancel_left = MaxCancels
    /\ NoTransaction
    /\ cursor = SyncCursor
    /\ emitted = <<>>
    /\ pages = <<>>
    /\ cstream = [state |-> "open", exits |-> <<>>]

svars == <<pc, message_id, stream, awaiting, inbound, result, exc, raised, ops_left,
           put>>

\* stream.__aexit__(type(e), e, tb), or (None, None, None) when e = NoExc
stream_exit(s, e) == [state |-> "exited", exits |-> Append(s.exits, e)]

EndsQuietly(e) ==
    /\ cursor' = [cursor EXCEPT !.state = "ended", !.buffer = <<>>]
    /\ cstream' = stream_exit(cstream, NoExc)
    /\ emitted' = emitted

\* the except clause of the handler: close the stream with e, raise e again
Fail(e) ==
    /\ cursor' = [cursor EXCEPT !.state = "failed", !.error = e, !.buffer = <<>>]
    /\ cstream' = stream_exit(cstream, e)
    /\ emitted' = emitted

\* the caller asks for the next event: the generator yields the next event of
\* the page it is in, or goes on to read a page
sync_anext ==
    /\ cursor.kind = "sync" /\ cursor.state = "suspended"
    /\ IF cursor.buffer # <<>>
       THEN /\ emitted' = Append(emitted, Head(cursor.buffer))
            /\ cursor' = [cursor EXCEPT !.buffer = Tail(@)]
       ELSE /\ emitted' = emitted
            /\ cursor' = [cursor EXCEPT !.state = "reading"]
    /\ UNCHANGED <<pages, cstream>>
    /\ UNCHANGED svars
    /\ UNCHANGED avars

\* the stream yields page r.  ok tells whether the graceful close after a
\* finished page succeeds; when it raises, the except clause closes again.
sync_recv(r, ok) ==
    /\ cursor.kind = "sync" /\ cursor.state = "reading"
    /\ Len(pages) < MaxPages
    /\ r.response = "finished" \/ ok
    /\ pages' = Append(pages, r)
    /\ CASE r.response \in {"reset", "result"} ->
              /\ IF page_events(r) = <<>>
                 THEN emitted' = emitted /\ cursor' = cursor
                 ELSE /\ emitted' = Append(emitted, Head(page_events(r)))
                      /\ cursor' = [cursor EXCEPT !.state = "suspended",
                                                  !.buffer = Tail(page_events(r))]
              /\ cstream' = cstream
         [] r.response = "finished" ->
              /\ emitted' = emitted
              /\ IF ok
                 THEN /\ cursor' = Finish(cursor, r.token)
                      /\ cstream' = stream_exit(cstream, NoExc)
                 ELSE /\ cursor' = [Finish(cursor, r.token) EXCEPT
                                        !.state = "failed",
                                        !.error = Exc("StreamError", "close")]
                      /\ cstream' = stream_exit(stream_exit(cstream, NoExc),
                                                Exc("StreamError", "close"))
         [] r.response = "unset" -> Fail(Exc("ValueError", "page"))
    /\ UNCHANGED svars
    /\ UNCHANGED avars

\* the stream ends: the loop is left and "finished was never set" is raised
sync_recv_end ==
    /\ cursor.kind = "sync" /\ cursor.state = "reading"
    /\ Fail(Exc("ValueError", "end"))
    /\ UNCHANGED pages
    /\ UNCHANGED svars
    /\ UNCHANGED avars

\* reading from the stream raises
sync_recv_fails ==
    /\ cursor.kind = "sync" /\ cursor.state = "reading"
    /\ Fail(Exc("StreamError", "recv"))
    /\ UNCHANGED pages
    /\ UNCHANGED svars
    /\ UNCHANGED avars

\* the caller stops iterating and the generator is closed where it is
\* suspended: GeneratorExit is no Exception, so the except clause does not run
sync_break ==
    /\ cursor.kind = "sync" /\ cursor.state = "suspended"
    /\ cursor' = [cursor EXCEPT !.state = "abandoned", !.buffer = <<>>]
    /\ UNCHANGED <<emitted, pages, cstream>>
    /\ UNCHANGED svars
    /\ UNCHANGED avars

SyncNext ==
    \/ sync_anext
    \/ \E r \in SyncPages, ok \in BOOLEAN : sync_recv(r, ok)
    \/ sync_recv_end
    \/ sync_recv_fails
    \/ sync_break

SyncSpec == InitSync /\ [][SyncNext]_vars

\* ---- properties of a sync cursor ----------------------------------------------
\* the events page r stands for: one Reset for a reset page; for a result
\* page one event per changed item, then per deleted key path, then per key
\* path outside the window
EventsOf(r) ==
    IF r.response = "reset" THEN <<[type |-> "SyncReset"]>>
    ELSE IF r.response = "result"
    THEN [k \in DOMAIN r.changed |->
             [type |-> "SyncChangedItem", item |-> unmarshal(r.changed[k])]]
         \o [k \in DOMAIN r.deleted |->
             [type |-> "SyncDeletedItem", key_path |-> r.deleted[k]]]
         \o [k \in DOMAIN r.outside |->
             [type |-> "SyncUpdatedItemKeyOutsideListWindow", key_path |-> r.outside[k]]]
    ELSE <<>>

RECURSIVE EventsOfAll(_)
EventsOfAll(ps) ==
    IF ps = <<>> THEN <<>> ELSE EventsOf(Head(ps)) \o EventsOfAll(Tail(ps))

IsPrefix(a, b) == Len(a) <= Len(b) /\ a = SubSeq(b, 1, Len(a))

\* C26: a sync cursor emits the events of its pages in page arrival order and,
\* within a result page, changed items, then deleted key paths, then
\* outside-window key paths, one event per element, and one Reset per reset
\* page; when the sequence has ended every event has been emitted and the
\* token the caller sees is the token of the finished page.
C26_SyncEventsInOrder ==
    cursor.kind = "sync" =>
        /\ IsPrefix(emitted, EventsOfAll(pages))
        /\ cursor.state \in {"suspended", "reading"} =>
              emitted \o cursor.buffer = EventsOfAll(pages)
        /\ cursor.state = "ended" =>
              /\ emitted = EventsOfAll(pages)
              /\ pages[Len(pages)].response = "finished"
              /\ cursor.token = pages[Len(pages)].token

C26_Witness ==
    /\ cursor.kind = "sync" /\ cursor.state = "ended"
    /\ pages = <<ResetPage, ResultPage(<<2, 1>>, <<"/x">>, <<"/z", "/y">>), FinishedPage("T2")>>
    /\ Len(emitted) = 6
    /\ emitted[1].type = "SyncReset"
    /\ emitted[2] = [type |-> "SyncChangedItem", item |-> unmarshal(2)]
    /\ emitted[4] = [type |-> "SyncDeletedItem", key_path |-> "/x"]
    /\ emitted[6] = [type |-> "SyncUpdatedItemKeyOutsideListWindow", key_path |-> "/y"]
    /\ cursor.token = "T2"

SyncReading == cursor.kind = "sync" /\ cursor.state = "reading"
ReadsPage == Len(pages') = Len(pages) + 1
PageRead == pages'[Len(pages')]

\* C27: a sync cursor fails with an error, and does not end normally, when a
\* page has none of reset, result and finished set and when the stream ends
\* (or breaks) before a finished page was read; no token is captured in
\* either case, and the cursor ends normally only on a finished page.
C27_CursorFailsWithoutFinished ==
    [][SyncReading =>
          /\ (ReadsPage /\ PageRead.response = "unset") =>
                /\ cursor'.state = "failed"
                /\ cursor'.error = Exc("ValueError", "page")
                /\ cursor'.token = NoToken
          /\ (~ReadsPage /\ cursor' # cursor) =>
                /\ cursor'.state = "failed"
                /\ cursor'.error \in {Exc("ValueError", "end"), Exc("StreamError", "recv")}
                /\ cursor'.token = NoToken
          /\ cursor'.state = "ended" => (ReadsPage /\ PageRead.response = "finished")]_vars

C27_Witness ==
    /\ cursor.kind = "sync" /\ cursor.state = "failed"
    /\ cursor.error = Exc("ValueError", "end")
    /\ pages = <<ResultPage(<<1>>, <<>>, <<>>)>>
    /\ emitted = <<SyncChangedItem(unmarshal(1))>>
    /\ cursor.token = NoToken

\* C28: when the caller stops iterating before the finished page is reached,
\* the stream is closed when the cursor is torn down and no error is raised to
\* the caller.
C28_EarlyBreakClosesStream ==
    (cursor.kind = "sync" /\ cursor.state = "abandoned" /\ emitted # <<>>) =>
        /\ cstream.state = "exited"
        /\ cursor.error = NoExc

\* ---- cursors of both kinds ------------------------------------------------

\* a sync cursor over its own stream, or a transaction with its list cursors
InitCursor == InitSync \/ InitTxn

CursorNext == SyncNext \/ TxnNext

CursorSpec == InitCursor /\ [][CursorNext]_vars

\* the step in which the sync cursor reads a finished page
SyncReadsFinished ==
    IF SyncReading /\ ReadsPage THEN PageRead.response = "finished" ELSE FALSE

\* the step in which the cursor of a list inside a transaction is handed a
\* finished page
ListReadsFinished ==
    IF Reads /\ awaiting.command = "list_page"
    THEN IF Accepted(Read) THEN Read.body.response = "finished" ELSE FALSE
    ELSE FALSE

\* the block issues a new list in this step, which makes a new cursor
NewList == cursor' = ListCursor(message_id') /\ message_id' > message_id

\* C29: on a finished page the cursor stores the page's token for the caller,
\* emits no further item, reads no further message and ends the sequence.  A
\* sync cursor closes its stream gracefully at that point (the sequence ends
\* with the error of the close when the close itself raises); the cursor of a
\* list inside a transaction leaves the session stream open and the block
\* goes on.
C29_FinishedEndsCursor ==
    [][/\ SyncReadsFinished =>
            /\ cursor'.token = PageRead.token
            /\ emitted' = emitted /\ cursor'.buffer = <<>>
            /\ cursor'.state \in {"ended", "failed"}
            /\ cursor'.state = "failed" => cursor'.error = Exc("StreamError", "close")
            /\ cstream'.state = "exited"
            /\ cstream'.exits[Len(cstream.exits) + 1] = NoExc
       /\ ListReadsFinished =>
            /\ cursor'.token = Read.body.token
            /\ emitted' = emitted /\ cursor'.buffer = <<>>
            /\ cursor'.state = "ended"
            /\ stream' = stream /\ stream.state = "open"
            /\ pc' = "active" /\ exc' = NoExc
       /\ (cursor.state = "ended" \/ cursor.error = Exc("StreamError", "close")) =>
            \/ /\ cursor' = cursor /\ emitted' = emitted
               /\ pages' = pages
               /\ awaiting'.command # "list_page"
            \/ NewList]_vars

C29_Witness ==
    /\ cursor.kind = "txn_list" /\ cursor.state = "ended" /\ cursor.token = "T1"
    /\ emitted = <<unmarshal(2), unmarshal(1)>>
    /\ pc = "active" /\ stream.state = "open"
    /\ Len(inbound) = 2 /\ LastRead.body = ListFinishedPage("T1")

\* the list requests the block has sent
ListRequests ==
    {i \in DOMAIN stream.sent : Sent(i).command \in {"begin_list", "continue_list"}}

\* the cursor's read of this step is handed a page
ListReadsPage ==
    IF Reads /\ awaiting.command = "list_page" THEN Accepted(Read) ELSE FALSE

\* C30: while the cursor of a begin_list or continue_list inside a
\* transaction awaits a page, the response is awaited under the message ID of
\* that list request and as list_results; a message with another ID or
\* another variant (or the end of the stream) is an error and yields nothing;
\* after a page that is not the finished page the same ID is expected again;
\* and once the cursor was drained to finished, the next request of the block
\* goes out under a new message ID.
C30_ListPagesUnderRequestID ==
    [][/\ awaiting.command = "list_page" =>
            /\ cursor.kind = "txn_list"
            /\ awaiting.message_id = cursor.message_id
            /\ awaiting.field = "list_results"
            /\ \E i \in ListRequests : Sent(i).message_id = cursor.message_id
       /\ (Reads /\ awaiting.command = "list_page") =>
            IF ListReadsPage
            THEN /\ Read.message_id = cursor.message_id
                 /\ Read.result = "list_results"
                 /\ cursor'.message_id = cursor.message_id
                 /\ awaiting'.command = "list_page" => awaiting' = awaiting
                 /\ Read.body.response = "result" => cursor'.state # "ended"
            ELSE /\ cursor'.state = "failed"
                 /\ cursor'.error = Exc("ValueError", "list_page")
                 /\ emitted' = emitted
       /\ (cursor.state = "ended" /\ pc = "active" /\ stream'.sent # stream.sent) =>
            /\ NewMessageID
            /\ message_id' > cursor.message_id]_vars

C30_Witness ==
    /\ cursor.kind = "txn_list" /\ cursor.state = "ended"
    /\ pc = "active" /\ Len(inbound) = 3
    /\ [i \in DOMAIN stream.sent |-> Sent(i).command] = <<"begin", "begin_list", "get_items">>
    /\ [i \in DOMAIN inbound |-> inbound[i].message_id] = <<3, 3, 4>>
    /\ [i \in 1 .. 2 |-> inbound[i].body.response] = <<"result", "finished">>
    /\ inbound[3].result = "get_results"
    /\ emitted = <<unmarshal(2), unmarshal(1)>>

\* ---- the timer and the dedupe slot -------------------------------------------
\* the timer s is through its sleep in this step and calls _refresh_token()
Fires(s) == sched[s].status = "sleeping" /\ sched'[s].status # "sleeping"

\* the refresh tasks created in this step
Started == {t \in Tasks : tasks[t].status = "free" /\ tasks'[t].status = "created"}

\* C31: a timer that fires calls the deduplicated refresh, not the fetch: when
\* a refresh is in flight the timer joins that refresh and no refresh task is
\* created; when none is in flight a refresh task is created and the timer
\* waits for it, whether or not the stored token is still valid.
C31_TimerUsesDedupedRefresh ==
    [][\A s \in Timers :
          Fires(s) =>
              IF InFlight # {}
              THEN /\ Started = {}
                   /\ sched'[s].status = "waiting" /\ sched'[s].on \in InFlight
                   /\ W("sched", s) \in
                         {tasks'[sched'[s].on].waiters[k] :
                             k \in 1 .. Len(tasks'[sched'[s].on].waiters)}
              ELSE /\ Cardinality(Started) = 1
                   /\ sched'[s].status = "waiting" /\ sched'[s].on \in Started
                   /\ cached' = sched'[s].on]_vars

\* C32: whenever a refresh task is in flight the dedupe slot holds it: no
\* caller that was joined on an earlier, settled refresh empties the slot of
\* a newer refresh when it wakes up.
C32_SlotHoldsInFlightRefresh == \A t \in InFlight : cached = t

\* C33: at most one _schedule task of the token cache is pending (created or
\* asleep, not yet through its sleep) at any time.
C33_AtMostOneTimerPending == Cardinality({s \in Timers : Scheduled(s)}) <= 1

\* ---- a failed refresh ------------------------------------------------------------
\* the refresh task t fails in this step
Fails(t) == ~Failed(t) /\ Failed(t)'

\* C34: the step in which a refresh fails, whether a caller or a timer started
\* it, leaves the stored TokenState as it was and creates no _schedule task;
\* a stored token that is still valid is returned by the next get_token call
\* without a refresh.
C34_FailureKeepsTokenState ==
    [][/\ \A t \in Tasks :
            Fails(t) =>
                /\ token_state' = token_state
                /\ sched' = sched
                /\ SelectSeq(ready', LAMBDA h : h.kind = "sched_start")
                     = SelectSeq(ready, LAMBDA h : h.kind = "sched_start")
                /\ NonExpired => (NonExpired' /\ valid_access_token' = token_state.token)
       /\ \A c \in Callers :
            (get_token(c) /\ NonExpired /\ \E t \in Tasks : Failed(t)) =>
                /\ returned' = Return(W("caller", c), 0, OkOut(token_state.token))
                /\ UNCHANGED <<cached, tasks>>]_vars

C34_Witness ==
    /\ NonExpired
    /\ returned.who.kind = "caller" /\ returned.task = 0
    /\ returned.out = OkOut(token_state.token)
    /\ \A s \in Timers : ~Scheduled(s)
    /\ \E t \in Tasks :
          /\ Failed(t)
          /\ \E k \in 1 .. Len(tasks[t].waiters) : tasks[t].waiters[k].kind = "sched"

\* ---- the waits of one fetch --------------------------------------------------------
\* the fetch of task t starts a backoff wait in this step
StartsWait(t) == tasks[t].status # "backoff" /\ tasks'[t].status = "backoff"

\* the fetch of task t ends in this step
Ends(t) == tasks[t].status \in {"fetching", "backoff"} /\ tasks'[t].status = "done"

\* C35: a fetch starts a backoff wait only in the step in which an attempt
\* failed with a retryable code and attempts are left; the wait is shorter
\* than 2^i * base for the zero-based index i of the failed attempt; when it
\* is over the next attempt is made.  A fetch waits at most 9 times, and the
\* step that ends it (the 10th failure, a non-retryable failure or a
\* success) starts no wait.
C35_WaitsOnlyBetweenAttempts ==
    /\ [][\A t \in Tasks :
            /\ StartsWait(t) =>
                 /\ \E code \in RetryableCodes : RespErr(t, code)
                 /\ tasks[t].status = "fetching"
                 /\ tasks[t].i = tasks[t].failures
                 /\ tasks[t].i < RETRY_ATTEMPTS - 1
                 /\ tasks'[t].failures = tasks[t].failures + 1
                 /\ tasks'[t].waits = tasks[t].waits + 1
                 /\ tasks'[t].wake_at >= Now
                 /\ tasks'[t].wake_at - Now < (2 ^ tasks[t].i) * BaseRetryBackoffMs
            /\ (tasks[t].status = "backoff" /\ tasks'[t].status # "backoff") =>
                 /\ tasks'[t].status = "fetching"
                 /\ tasks'[t].i = tasks[t].i + 1
                 /\ tasks'[t].attempts = tasks[t].attempts + 1
            /\ Ends(t) =>
                 /\ tasks[t].status = "fetching"
                 /\ tasks'[t].waits = tasks[t].waits
            /\ tasks'[t].waits # tasks[t].waits =>
                 StartsWait(t) \/ tasks'[t].status = "free"]_vars
    /\ [](\A t \in Tasks :
            /\ tasks[t].waits <= RETRY_ATTEMPTS - 1
            /\ tasks[t].status = "backoff" => tasks[t].waits = tasks[t].failures
            /\ Failed(t) => tasks[t].waits = tasks[t].failures - 1
            /\ (tasks[t].status = "done" /\ tasks[t].out.kind = "ok") =>
                  tasks[t].waits = tasks[t].failures)

\* a fetch ended with its 10th retryable failure after 9 waits
C35_Witness ==
    \E t \in Tasks :
        /\ Failed(t) /\ tasks[t].out.code \in RetryableCodes
        /\ tasks[t].failures = RETRY_ATTEMPTS
        /\ tasks[t].waits = RETRY_ATTEMPTS - 1
        /\ tasks[t].i = RETRY_ATTEMPTS - 1

\* ---- backoff(attempt, base_retry_backoff_secs) as a function ---------------------
\* the base backoff times, in ms, and the values of random(), in thousandths
Bases == {0, 1, 10, 1000}
Jitters == {0, 1, 500, 999}

InitBackoff ==
    /\ bo \in [attempt : 0 .. MaxAttempt, base : Bases, jitter : Jitters,
               called : {FALSE}, d : {0}]
    /\ token_state = NoState
    /\ cached = None
    /\ tasks = [t \in Tasks |-> FreeTask]
    /\ sched = [s \in Timers |-> FreeTimer]
    /\ ready = <<>>
    /\ returned = NoReturn
    /\ callers = [c \in Callers |-> IdleCaller]
    /\ fail_left = 0
    /\ issued = 0
    /\ cancel_left = 0
    /\ NoTransaction
    /\ NoCursors

\* the call returns exp * jitter * base_retry_backoff_secs
backoff_call ==
    /\ ~bo.called
    /\ bo' = [bo EXCEPT !.called = TRUE, !.d = backoff(bo.attempt, bo.base, bo.jitter)]
    /\ UNCHANGED <<token_state, cached, tasks, sched, callers, ready, returned, issued,
                   fail_left, cancel_left>>
    /\ UNCHANGED svars
    /\ UNCHANGED cvars

BackoffSpec == InitBackoff /\ [][backoff_call]_vars

C37_UnclassifiedErrorNotRetried ==
    /\ [][\A t \in Tasks :
            RespExc(t) =>
                /\ tasks'[t].status = "done"
                /\ tasks'[t].out = ExcOut
                /\ tasks'[t].attempts = tasks[t].attempts
                /\ tasks'[t].waits = tasks[t].waits
                /\ AllWoken(t)']_vars
    /\ [](\A t \in Tasks :
            (Failed(t) /\ tasks[t].out.kind = "exc") =>
                /\ tasks[t].attempts = tasks[t].failures
                /\ tasks[t].failures = 1 => (tasks[t].attempts = 1 /\ tasks[t].waits = 0))
    /\ [][\A c \in Callers :
            (LeavesAwait(c) /\ tasks[callers[c].on].out.kind = "exc") =>
                returned' = Return(W("caller", c), callers[c].on, ExcOut)]_vars

\* of two callers joined on the refresh, the first has been handed the
\* exception of the only attempt and the second is about to be
C37_Witness ==
    /\ returned.who.kind = "caller" /\ returned.out = ExcOut
    /\ \E t \in Tasks :
          /\ Failed(t) /\ tasks[t].out = ExcOut
          /\ tasks[t].attempts = 1 /\ tasks[t].waits = 0
          /\ tasks[t].delivered = 1
          /\ Len(tasks[t].waiters) = 1 /\ tasks[t].waiters[1].kind = "caller"
          /\ AllWoken(t)

\* ---- a request issued over a list that was not drained ---------------------------
\* the cursor of a list of this session has not reached its finished page
Undrained == cursor.kind = "txn_list" /\ cursor.state = "suspended"

\* the message read in this step is a page of the cursor's list
ReadsPendingPage ==
    IF Reads
    THEN Read.result = "list_results" /\ Read.message_id = cursor.message_id
    ELSE FALSE

\* C38: when a get, put, commit or abort awaits its response while the cursor
\* of a list of the same session has not been drained, and the next message
\* on the stream is a page of that list (the server answers in the order of
\* the requests), the awaiting call raises the mismatch error and returns
\* nothing: the page is not handed to the later request, and the cursor does
\* not receive it either.
C38_PendingPageFailsLaterRequest ==
    [][(Undrained /\ awaiting.command \in {"get_items", "put_items", "commit", "abort"}
           /\ ReadsPendingPage) =>
          /\ ~ReturnsValue
          /\ RaisedByStep = Exc("ValueError", awaiting.command)
          /\ put'.returns = put.returns
          /\ result'.value \in {result.value, abort_result}
          /\ cursor' = cursor /\ emitted' = emitted]_vars

\* a get issued after the first item of a page of two was taken from the
\* cursor reads the pending finished page and fails
C38_Witness ==
    /\ Undrained
    /\ emitted = <<unmarshal(2)>> /\ cursor.buffer = <<unmarshal(1)>>
    /\ [i \in DOMAIN stream.sent |-> Sent(i).command] = <<"begin", "begin_list", "get_items">>
    /\ Len(inbound) = 2
    /\ LastRead = Response(cursor.message_id, "list_results", FALSE, <<>>)
    /\ LastSent.message_id = cursor.message_id + 1
    /\ pc = "exit" /\ exc = Exc("ValueError", "get_items")

\* the positions of the stream at which a terminal command was sent
Terminals == {i \in DOMAIN stream.sent : Sent(i).command \in {"commit", "abort"}}

\* the exit has sent its terminal command, or is past it
ExitBegun == Terminals # {} \/ pc \in {"stream_exit", "closed"}

\* C39: each exit of a session hands exactly one terminal command to the
\* stream, in the one step that leaves the exit's start: commit when the block
\* ended without error and abort otherwise, never both (a send that raises ends
\* the exit with nothing sent and is not repeated).  The terminal command
\* carries the session's highest message ID, and it is the last message on
\* the stream: neither the wait for its finished response nor the stream's
\* exit hook sends anything after it.
C39_OneTerminalCommandLast ==
    /\ [](/\ Cardinality(Terminals) <= 1
          /\ \A i \in Terminals :
                /\ i = Len(stream.sent)
                /\ (Sent(i).command = "abort") <=> BlockRaised
                /\ Sent(i).message_id = message_id
                /\ \A j \in DOMAIN stream.sent :
                      j # i => Sent(j).message_id < Sent(i).message_id
          /\ (pc = "stream_exit" \/ (result.assigned > 0 /\ ~BlockRaised)) =>
                Cardinality(Terminals) = 1)
    /\ [][pc = "exit" =>
             /\ pc' # "exit"
             /\ message_id' = message_id + 1
             /\ IF stream'.sent # stream.sent
                THEN /\ stream'.sent = Append(stream.sent,
                            [message_id |-> message_id',
                             command |-> IF BlockRaised THEN "abort" ELSE "commit",
                             end |-> TRUE])
                     /\ pc' = "awaiting"
                ELSE pc' = "closed" /\ raised' \notin {NoExc, exc}]_vars
    /\ [][ExitBegun => (stream'.sent = stream.sent /\ pc' # "exit")]_vars

C39_Witness ==
    /\ pc = "closed"
    /\ raised = NoExc
    /\ stream.state = "exited"
    /\ stream.sent = <<Request(2, "begin"), Request(3, "put_items"), Request(4, "commit")>>
    /\ result.assigned = 1

\* C40: on every path of a sync cursor that ends by a finished page or by an
\* error, the exit hook of the stream is invoked exactly once: with no
\* exception after finished, with the error otherwise; it is not invoked a
\* second time when the graceful close itself raises.
C40_CloseHookRunsOnce ==
    (cursor.kind = "sync" /\ cursor.state \in {"ended", "failed"}) =>
        /\ Len(cstream.exits) = 1
        /\ cstream.exits[1] =
              IF pages # <<>> /\ pages[Len(pages)].response = "finished"
              THEN NoExc ELSE cursor.error

====
